---------------------------- MODULE Spec2Model ----------------------------
(***************************************************************************)
(* TagalogDictionaryScraper (src/src/tagalog_dictionary_scraper.py).       *)
(*                                                                         *)
(* The scraper walks the letters of the alphabet; for each letter it       *)
(* fetches the first listing page, reads the number of pages from the      *)
(* "Last" anchor, builds the page URLs, fetches them (one by one, or in    *)
(* chunks of concurrently running tasks), extracts a word entry from every *)
(* word-group, and merges the entries into one dictionary.                 *)
(*                                                                         *)
(* Python strings that the code searches, splits, formats or parses are    *)
(* sequences of one-character strings here, so that find, split, strip,    *)
(* format and int are computed as Python computes them.  Headwords are     *)
(* only ever used as dictionary keys and stay atomic strings.              *)
(***************************************************************************)
EXTENDS Integers, Sequences, FiniteSets, TLC

VARIABLES
    async_scrape,   \* scrape's parameter async_scrape
    max_urls,       \* scrape's parameter max_urls
    pc,             \* position of the controlling flow inside scrape
    exc,            \* the exception that left scrape, "" while none has
    letter_idx,     \* index into letters of the letter being processed
    words,          \* scrape's local words: headword -> entry
    response,       \* the first listing page of the letter (its "Last" anchor)
    last_page,      \* scrape's local last_page
    urls,           \* scrape's local urls
    url_idx,        \* _get_pages_content: index of the URL the running loop is at
    contents,       \* _get_pages_content: the local contents of the first loop
    chunk_idx,      \* _get_pages_content_async: index of the chunk being run
    tasks,          \* _get_pages_content_async: every task created so far
    all_results,    \* the result list being built by the running fetch function
    htmls,          \* scrape's local htmls
    crawl_last      \* history: headword -> definition text of its occurrence
                    \* that is last in crawl order among the merged pages

vars == <<async_scrape, max_urls, pc, exc, letter_idx, words, response, last_page,
          urls, url_idx, contents, chunk_idx, tasks, all_results, htmls, crawl_last>>

-----------------------------------------------------------------------------
(* Bounds of the model *)

\* how many of the 26 letters a crawl of the model walks
NumLetters == 2
\* largest page number a "Last" anchor names during a crawl of the model
MaxCrawlK == 2
\* largest page number a "Last" anchor names when pagination is checked alone
MaxLastK == 11
\* largest max_urls a call is started with
MaxUrls == 2
\* most URLs handed to _get_pages_content_async when it is checked alone
MaxAsyncUrls == 3
\* longest definition text drawn from TextAlphabet
MaxTextLen == 5

-----------------------------------------------------------------------------
(* Python's str and list operations, as the code uses them *)

Min(S) == CHOOSE x \in S : \A y \in S : x <= y
Max(S) == CHOOSE x \in S : \A y \in S : x >= y

\* s.find(sub): the lowest 0-based index at which sub occurs in s, -1 if none
find(s, sub) ==
    LET hits == {i \in 0..(Len(s) - Len(sub)) : \A j \in 1..Len(sub) : s[i + j] = sub[j]}
    IN  IF hits = {} THEN -1 ELSE Min(hits)

\* s.split(sep)[-1]: what follows the last of the non-overlapping occurrences
\* of sep that a left-to-right scan finds; s itself when sep does not occur
RECURSIVE split_last(_, _)
split_last(s, sep) ==
    LET i == find(s, sep)
    IN  IF i = -1 THEN s
        ELSE split_last(SubSeq(s, i + Len(sep) + 1, Len(s)), sep)

Whitespace == {" ", "\t", "\n", "\r"}

\* s.strip(): s without its leading and trailing whitespace
strip(s) ==
    LET keep == {i \in 1..Len(s) : s[i] \notin Whitespace}
    IN  IF keep = {} THEN <<>> ELSE SubSeq(s, Min(keep), Max(keep))

\* s.split('/')
RECURSIVE split_slash(_)
split_slash(s) ==
    LET i == find(s, <<"/">>)
    IN  IF i = -1 THEN <<s>>
        ELSE <<SubSeq(s, 1, i)>> \o split_slash(SubSeq(s, i + 2, Len(s)))

DigitChars == <<"0", "1", "2", "3", "4", "5", "6", "7", "8", "9">>

\* '{}'.format(n) for an int n >= 0: its decimal digits
RECURSIVE format_int(_)
format_int(n) ==
    IF n < 10 THEN <<DigitChars[n + 1]>>
    ELSE format_int(n \div 10) \o <<DigitChars[(n % 10) + 1]>>

DigitValue(c) == CHOOSE d \in 0..9 : DigitChars[d + 1] = c

\* int(s) succeeds on a non-empty run of decimal digits (the only numerals
\* the modelled pages carry); any other string raises ValueError
is_int(s) == Len(s) > 0 /\ \A i \in 1..Len(s) : \E d \in 1..10 : DigitChars[d] = s[i]

RECURSIVE int(_)
int(s) ==
    IF Len(s) = 1 THEN DigitValue(s[1])
    ELSE 10 * int(SubSeq(s, 1, Len(s) - 1)) + DigitValue(s[Len(s)])

-----------------------------------------------------------------------------
(* Class attributes *)

url ==
    <<"h", "t", "t", "p", "s", ":", "/", "/", "t", "a", "g", "a", "l", "o",
      "g", ".", "p", "i", "n", "o", "y", "d", "i", "c", "t", "i", "o", "n",
      "a", "r", "y", ".", "c", "o", "m">>

letters == <<"a", "b", "c", "d", "e", "f", "g", "h", "i", "j", "k", "l", "m",
             "n", "o", "p", "q", "r", "s", "t", "u", "v", "w", "x", "y", "z">>

parts_of_speech ==
    <<
       <<"n", ".">>,  \* 'n.'
       <<"s", "y", "n", ".">>,  \* 'syn.'
       <<"b", "o", "t", ".">>,  \* 'bot.'
       <<"z", "o", "o", ".">>,  \* 'zoo.'
       <<"b", "y", " ", "e", "x", "t", ".">>,  \* 'by ext.'
       <<"i", "n", "t", "e", "r", "r", "o", "g", ".">>,  \* 'interrog.'
       <<"g", "r", "a", "m", ".">>,  \* 'gram.'
       <<"i", "d", "i", "o", "m", ".">>,  \* 'idiom.'
       <<"p", "r", "e", "p", ".">>,  \* 'prep.'
       <<"p", "r", "e", "f", ".">>,  \* 'pref.'
       <<"p", "e", "r", "s", ".">>,  \* 'pers.'
       <<"c", "o", "n", "j", ".">>,  \* 'conj.'
       <<"m", "e", "d", ".">>,  \* 'med.'
       <<"m", "a", "t", ".">>,  \* 'mat.'
       <<"e", "l", "e", "c", "t", "r", ".">>,  \* 'electr.'
       <<"m", "i", "l", ".">>,  \* 'mil.'
       <<"i", "n", "t", "r", "j", ".">>,  \* 'intrj.'
       <<"a", "d", "v", ".">>,  \* 'adv.'
       <<"p", "r", "o", "n", ".">>,  \* 'pron.'
       <<"c", "o", "m", "p", ".">>,  \* 'comp.'
       <<"a", "d", "j", ".">>,  \* 'adj.'
       <<"v", ".">>,  \* 'v.'
       <<"i", "n", "f", ".">>,  \* 'inf.'
       <<"p", "l", ".">>,  \* 'pl.'
       <<"c", "o", "l", "l", ".">>,  \* 'coll.'
       <<"f", "i", "g", ".">>,  \* 'fig.'
       <<"p", "o", "s", "s", ".">>,  \* 'poss.'
       <<"a", "n", "a", "t", ".">>,  \* 'anat.'
       <<"r", "e", "l", ".">>,  \* 'rel.'
       <<"p", "s", "e", "u", "d", "o", "-", "v", "e", "r", "b">>,  \* 'pseudo-verb'
       <<"e", "x", "i", "s", "t", "e", "n", "t", "i", "a", "l">>,  \* 'existential'
       <<"i", "m", "p", ".">>,  \* 'imp.'
       <<"e", "x", "p", "r", ".">>,  \* 'expr.'
       <<"e", "x", "c", "l", ".">>,  \* 'excl.'
       <<"a", "d", "j">>,  \* 'adj'
       <<"[", "n", "]">>,  \* '[n]'
       <<"v", "i", "n", "f", ".">>,  \* 'vinf.'
       <<"n">>,  \* 'n'
       <<"v", ".", ",", "i", "n", "f", ".">>,  \* 'v.,inf.'
       <<"n", ".", ",", "z", "o", "o", ".">>,  \* 'n.,zoo.'
       <<"a", "d", "j", ".", "/", "a", "d", "v", ".">>   \* 'adj./adv.'
    >>

-----------------------------------------------------------------------------
(* Python's dict, as the code uses it: a sequence of key/value pairs in     *)
(* insertion order; assigning to a present key keeps the key's position     *)

dict_keys(d) == {d[i].key : i \in DOMAIN d}

dict_get(d, k) == d[CHOOSE i \in DOMAIN d : d[i].key = k].value

\* d[k] = v
dict_set(d, k, v) ==
    IF k \in dict_keys(d)
    THEN [i \in DOMAIN d |-> IF d[i].key = k THEN [key |-> k, value |-> v] ELSE d[i]]
    ELSE Append(d, [key |-> k, value |-> v])

\* d.pop(k) leaves d without the pair of k
dict_without(d, k) ==
    LET j == CHOOSE i \in DOMAIN d : d[i].key = k
    IN  SubSeq(d, 1, j - 1) \o SubSeq(d, j + 1, Len(d))

\* d.update(other)
RECURSIVE dict_update(_, _)
dict_update(d, other) ==
    IF other = <<>> THEN d
    ELSE dict_update(dict_set(d, Head(other).key, Head(other).value), Tail(other))

-----------------------------------------------------------------------------
(* _get_parts_of_speech and _get_definition *)

\* the loop over self.parts_of_speech from its k-th element on: the first
\* occurrence of every vocabulary string that occurs in text, keyed by index
RECURSIVE indices_pos_mapping(_, _, _)
indices_pos_mapping(text, k, mapping) ==
    IF k > Len(parts_of_speech) THEN mapping
    ELSE LET part_of_speech == parts_of_speech[k]
             index == find(text, part_of_speech)
         IN  indices_pos_mapping(text, k + 1,
                 IF index # -1 THEN dict_set(mapping, index, part_of_speech)
                 ELSE mapping)

\* _get_parts_of_speech taking the lowest index instead of the highest
get_parts_of_speech_min(text) ==
    LET mapping == indices_pos_mapping(text, 1, <<>>)
    IN  IF mapping = <<>> THEN [raised |-> "ValueError", value |-> <<>>]
        ELSE LET min_index == Min(dict_keys(mapping))
                 last_part_of_speech == dict_get(mapping, min_index)
                 others == dict_without(mapping, min_index)
             IN  [raised |-> "",
                  value |-> [i \in 1..Len(others) |-> others[i].value]
                                \o <<last_part_of_speech>>]

\* the value returned, or the exception raised: max() of no keys is a ValueError
get_parts_of_speech(text) ==
    LET mapping == indices_pos_mapping(text, 1, <<>>)
    IN  IF mapping = <<>> THEN [raised |-> "ValueError", value |-> <<>>]
        ELSE LET max_index == Max(dict_keys(mapping))
                 last_part_of_speech == dict_get(mapping, max_index)
                 others == dict_without(mapping, max_index)
             IN  [raised |-> "",
                  value |-> [i \in 1..Len(others) |-> others[i].value]
                                \o <<last_part_of_speech>>]

get_definition(text, part_of_speech) == strip(split_last(text, part_of_speech))

-----------------------------------------------------------------------------
(* The listing pages of the modelled site *)

\* the text of the definition paragraph of four word-groups
Text_bahay_v ==
    <<"b", "a", "h", "a", "y", " ", "v", ".", " ", "a", "s", "a", "l">>

Text_bahay_pl ==
    <<"b", "a", "h", "a", "y", " ", "p", "l", ".", " ", "m", "g", "a">>

Text_aso ==
    <<"a", "s", "o", " ", "z", "o", "o", ".", " ", "d", "o", "g">>

Text_aba ==
    <<"a", "b", "a", "!", " ", "o", "h">>

Group_bahay_v  == [word |-> "bahay", text |-> Text_bahay_v]
Group_bahay_pl == [word |-> "bahay", text |-> Text_bahay_pl]
Group_aso      == [word |-> "aso",   text |-> Text_aso]
Group_aba      == [word |-> "aba",   text |-> Text_aba]

\* the listing pages of the modelled site, each the list of its
\* div.word-group elements
Pages ==
    { <<>>,
      <<Group_bahay_v>>,
      <<Group_bahay_v, Group_aso, Group_bahay_pl>>,
      <<Group_aso, Group_aba>> }

-----------------------------------------------------------------------------
(* _get_words_info.  A document is [url, groups]; a word-group is           *)
(* [word, text]: the text of its first anchor and of its definition         *)
(* paragraph, which every word-group of the site's layout carries.          *)

\* the word-groups of the documents, in the order the two loops visit them
RECURSIVE word_groups(_)
word_groups(docs) ==
    IF docs = <<>> THEN <<>> ELSE Head(docs).groups \o word_groups(Tail(docs))

\* the loop body, from the first of groups on, accumulating into acc
RECURSIVE words_info_from(_, _)
words_info_from(groups, acc) ==
    IF groups = <<>> THEN [raised |-> "", value |-> acc]
    ELSE LET group == Head(groups)
             pos == get_parts_of_speech(group.text)
         IN  IF pos.raised # "" THEN [raised |-> pos.raised, value |-> acc]
             ELSE words_info_from(Tail(groups),
                      dict_set(acc, group.word,
                          [parts_of_speech |-> pos.value,
                           definition |-> get_definition(group.text,
                                              pos.value[Len(pos.value)])]))

get_words_info(docs) == words_info_from(word_groups(docs), <<>>)

-----------------------------------------------------------------------------
(* Pagination discovery (scrape, the try block) and _get_all_urls_by_letter *)

\* a first page: whether it has an a[title^=Last] element, whether that
\* element has an href attribute, and the attribute's value
NoAnchor == [anchor |-> FALSE, has_href |-> FALSE, href |-> <<>>]

\* find(...) is None without the anchor: .attrs raises the AttributeError the
\* code catches.  A missing href, a missing segment and a segment that is no
\* integer raise KeyError, IndexError and ValueError, which it does not catch.
discover_last_page(resp) ==
    IF ~resp.anchor THEN [raised |-> "", value |-> 2]
    ELSE IF ~resp.has_href THEN [raised |-> "KeyError", value |-> 0]
    ELSE LET segments == split_slash(resp.href)
         IN  IF Len(segments) < 2 THEN [raised |-> "IndexError", value |-> 0]
             ELSE IF ~is_int(segments[Len(segments) - 1])
                  THEN [raised |-> "ValueError", value |-> 0]
                  ELSE [raised |-> "", value |-> int(segments[Len(segments) - 1]) + 1]

\* '{url}/list/{letter}/{current_page}/'.format(...), current_page '' for page 1
page_url(letter, current_page) ==
    url \o <<"/", "l", "i", "s", "t", "/", letter, "/">>
        \o (IF current_page = 1 THEN <<>> ELSE format_int(current_page)) \o <<"/">>

\* _get_all_urls_by_letter with range(1, last_page + 1)
get_all_urls_by_letter_inclusive(letter, last_page_) ==
    [current_page \in 1..last_page_ |-> page_url(letter, current_page)]

\* range(1, last_page), one URL appended per page
get_all_urls_by_letter(letter, last_page_) ==
    [current_page \in 1..(last_page_ - 1) |-> page_url(letter, current_page)]

\* '{url}/list/{letter}'.format(...)
letter_url(letter) == url \o <<"/", "l", "i", "s", "t", "/", letter>>

\* chunk_list slicing l[i:i + n + 1]
chunk_list_overlapping(l, n) ==
    [c \in 1..((Len(l) + n - 1) \div n) |->
        SubSeq(l, (c - 1) * n + 1, IF c * n + 1 < Len(l) THEN c * n + 1 ELSE Len(l))]

\* chunk_list: l[i:i + n] for i in range(0, len(l), n)
chunk_list(l, n) ==
    [c \in 1..((Len(l) + n - 1) \div n) |->
        SubSeq(l, (c - 1) * n + 1, IF c * n < Len(l) THEN c * n ELSE Len(l))]

-----------------------------------------------------------------------------
(* The site: what a fetch can return *)

\* session.get(u).html, when the request succeeds
Documents(u) == {[url |-> u, groups |-> p] : p \in Pages}

NoDocument == [url |-> <<>>, groups |-> <<>>]

\* the href values of the "Last" anchor of a letter's first page: the page
\* path of page k, and four values of another shape
Hrefs(letter, max_k) ==
    {letter_url(letter) \o <<"/">> \o format_int(k) \o <<"/">> : k \in 0..max_k}
        \cup { letter_url(letter) \o <<"/">> \o format_int(max_k),
               letter_url(letter) \o <<"/", "l", "a", "s", "t", "/">>,
               format_int(max_k),
               <<>> }

\* the first listing pages of a letter, as far as scrape reads them
FirstPages(letter, max_k) ==
    {NoAnchor, [anchor |-> TRUE, has_href |-> FALSE, href |-> <<>>]}
        \cup {[anchor |-> TRUE, has_href |-> TRUE, href |-> h] : h \in Hrefs(letter, max_k)}

NoException == [type |-> "", at |-> ""]

\* an uncaught exception leaves scrape
Raise(type) ==
    /\ pc' = "raised"
    /\ exc' = [type |-> type, at |-> pc]

Range(s) == {s[i] : i \in DOMAIN s}

\* the documents of us, one per URL, in the order of us
in_url_order(docs, us) == [i \in 1..Len(us) |-> CHOOSE d \in Range(docs) : d.url = us[i]]

\* history: last with the word-groups of docs, taken in the order of us, added
last_in_crawl_order(last, docs, us) ==
    LET groups == word_groups(in_url_order(docs, us))
        seen == {groups[i].word : i \in DOMAIN groups}
    IN  [h \in DOMAIN last \cup seen |->
            IF h \in seen
            THEN groups[Max({i \in DOMAIN groups : groups[i].word = h})].text
            ELSE last[h]]

NoHistory == [h \in {} |-> <<>>]

-----------------------------------------------------------------------------
(* scrape *)

Init ==
    /\ async_scrape \in BOOLEAN
    /\ max_urls \in 1..MaxUrls
    /\ pc = "FetchFirstPage"
    /\ exc = NoException
    /\ letter_idx = 1
    /\ words = <<>>
    /\ response = NoAnchor
    /\ last_page = 0
    /\ urls = <<>>
    /\ url_idx = 0
    /\ contents = <<>>
    /\ chunk_idx = 0
    /\ tasks = <<>>
    /\ all_results = <<>>
    /\ htmls = <<>>
    /\ crawl_last = NoHistory

\* response = self._get_url_content(current_url); a failure is not caught
FetchFirstPage ==
    /\ pc = "FetchFirstPage"
    /\ letter_idx <= NumLetters
    /\ \/ /\ response' \in FirstPages(letters[letter_idx], MaxCrawlK)
          /\ pc' = "DiscoverPagination"
          /\ exc' = exc
       \/ /\ Raise("FetchError")
          /\ response' = response
    /\ UNCHANGED <<async_scrape, max_urls, letter_idx, words, last_page, urls,
                   url_idx, contents, chunk_idx, tasks, all_results, htmls,
                   crawl_last>>

\* the try block around the "Last" anchor
DiscoverPagination ==
    /\ pc = "DiscoverPagination"
    /\ \E found \in {discover_last_page(response)} :
           \/ /\ found.raised = ""
              /\ last_page' = found.value
              /\ pc' = "EnumerateURLs"
              /\ exc' = exc
           \/ /\ found.raised # ""
              /\ Raise(found.raised)
              /\ last_page' = last_page
    /\ UNCHANGED <<async_scrape, max_urls, letter_idx, words, response, urls,
                   url_idx, contents, chunk_idx, tasks, all_results, htmls,
                   crawl_last>>

\* urls = self._get_all_urls_by_letter(letter, last_page)
EnumerateURLs ==
    /\ pc = "EnumerateURLs"
    /\ urls' = get_all_urls_by_letter(letters[letter_idx], last_page)
    /\ pc' = "FetchAllPages"
    /\ UNCHANGED <<async_scrape, max_urls, exc, letter_idx, words, response,
                   last_page, url_idx, contents, chunk_idx, tasks, all_results,
                   htmls, crawl_last>>

\* if async_scrape is False: ... else: ..., entering the function called
FetchAllPages ==
    /\ pc = "FetchAllPages"
    /\ \/ /\ ~async_scrape
          /\ pc' = "SeqLoop"
          /\ url_idx' = 1
          /\ contents' = <<>>
          /\ UNCHANGED <<chunk_idx, tasks, all_results>>
       \/ /\ async_scrape
          /\ pc' = "AsyncChunks"
          /\ chunk_idx' = 1
          /\ tasks' = <<>>
          /\ all_results' = <<>>
          /\ UNCHANGED <<url_idx, contents>>
    /\ UNCHANGED <<async_scrape, max_urls, exc, letter_idx, words, response,
                   last_page, urls, htmls, crawl_last>>

(* _get_pages_content *)

\* one iteration of the for loop: the fetched document is appended to
\* contents, or the exception is logged and the loop continues
SeqLoopFetch ==
    /\ pc = "SeqLoop"
    /\ url_idx <= Len(urls)
    /\ \/ \E doc \in Documents(urls[url_idx]) : contents' = Append(contents, doc)
       \/ contents' = contents
    /\ url_idx' = url_idx + 1
    /\ UNCHANGED <<async_scrape, max_urls, pc, exc, letter_idx, words, response,
                   last_page, urls, chunk_idx, tasks, all_results, htmls,
                   crawl_last>>

\* the for loop is over; the return statement starts its list comprehension
SeqLoopEnd ==
    /\ pc = "SeqLoop"
    /\ url_idx > Len(urls)
    /\ pc' = "SeqReturn"
    /\ url_idx' = 1
    /\ all_results' = <<>>
    /\ UNCHANGED <<async_scrape, max_urls, exc, letter_idx, words, response,
                   last_page, urls, contents, chunk_idx, tasks, htmls,
                   crawl_last>>

\* one element of [self._get_url_content(url) for url in urls]: the URL is
\* fetched again, outside any try
SeqReturnFetch ==
    /\ pc = "SeqReturn"
    /\ url_idx <= Len(urls)
    /\ \/ /\ \E doc \in Documents(urls[url_idx]) : all_results' = Append(all_results, doc)
          /\ url_idx' = url_idx + 1
          /\ UNCHANGED <<pc, exc>>
       \/ /\ Raise("FetchError")
          /\ UNCHANGED <<all_results, url_idx>>
    /\ UNCHANGED <<async_scrape, max_urls, letter_idx, words, response,
                   last_page, urls, contents, chunk_idx, tasks, htmls,
                   crawl_last>>

\* the list is returned and bound to htmls
SeqReturnEnd ==
    /\ pc = "SeqReturn"
    /\ url_idx > Len(urls)
    /\ htmls' = all_results
    /\ pc' = "ExtractAndMerge"
    /\ UNCHANGED <<async_scrape, max_urls, exc, letter_idx, words, response,
                   last_page, urls, url_idx, contents, chunk_idx, tasks,
                   all_results, crawl_last>>

(* _get_pages_content_async *)

\* the tasks of the chunk being run
chunk_tasks == {i \in DOMAIN tasks : tasks[i].chunk = chunk_idx}

\* the set of permutations of 1..n
Permutations_(n) == {p \in [1..n -> 1..n] : \A i \in 1..n : \E j \in 1..n : p[j] = i}

\* for chunk in chunk_urls: run(...) wraps one coroutine per URL of the next
\* chunk in a task (asyncio.ensure_future)
StartChunk ==
    /\ pc = "AsyncChunks"
    /\ chunk_idx <= Len(chunk_list(urls, max_urls))
    /\ chunk_tasks = {}
    /\ LET chunk == chunk_list(urls, max_urls)[chunk_idx]
       IN  tasks' = tasks \o [i \in 1..Len(chunk) |->
                        [url |-> chunk[i], chunk |-> chunk_idx, state |-> "pending",
                         result |-> NoDocument]]
    /\ UNCHANGED <<async_scrape, max_urls, pc, exc, letter_idx, words, response,
                   last_page, urls, url_idx, contents, chunk_idx, all_results,
                   htmls, crawl_last>>

\* the event loop runs a task up to its await: the request is in flight
TaskStart(i) ==
    /\ pc = "AsyncChunks"
    /\ i \in DOMAIN tasks
    /\ tasks[i].state = "pending"
    /\ tasks' = [tasks EXCEPT ![i].state = "inflight"]
    /\ UNCHANGED <<async_scrape, max_urls, pc, exc, letter_idx, words, response,
                   last_page, urls, url_idx, contents, chunk_idx, all_results,
                   htmls, crawl_last>>

\* the awaited request ends: the coroutine returns its response, or the
\* exception of the request ends the task
TaskComplete(i) ==
    /\ pc = "AsyncChunks"
    /\ i \in DOMAIN tasks
    /\ tasks[i].state = "inflight"
    /\ \/ \E doc \in Documents(tasks[i].url) :
              tasks' = [tasks EXCEPT ![i].state = "done", ![i].result = doc]
       \/ tasks' = [tasks EXCEPT ![i].state = "failed"]
    /\ UNCHANGED <<async_scrape, max_urls, pc, exc, letter_idx, words, response,
                   last_page, urls, url_idx, contents, chunk_idx, all_results,
                   htmls, crawl_last>>

\* run_until_complete(asyncio.wait(tasks)) has returned: every task of the
\* chunk has ended
all_complete(ts) == \A i \in ts : tasks[i].state \in {"done", "failed"}

\* the list run() returns for the finished tasks ts (ascending indices in
\* order): [t.result() for t in done], done being the set asyncio.wait
\* returns, so the list is in the iteration order of a set of tasks
run_results(order) ==
    {[j \in 1..Len(order) |-> tasks[order[p[j]]].result] : p \in Permutations_(Len(order))}

\* the indices of ts in ascending order
RECURSIVE ascending(_)
ascending(ts) ==
    IF ts = {} THEN <<>> ELSE <<Min(ts)>> \o ascending(ts \ {Min(ts)})

\* results = run(...); all_results.extend([result.html for result in results]).
\* t.result() re-raises the exception of a failed task, which nothing catches
ChunkCollect ==
    /\ pc = "AsyncChunks"
    /\ chunk_tasks # {}
    /\ all_complete(chunk_tasks)
    /\ \/ /\ \A i \in chunk_tasks : tasks[i].state = "done"
          /\ \E results \in run_results(ascending(chunk_tasks)) :
                 all_results' = all_results \o results
          /\ chunk_idx' = chunk_idx + 1
          /\ UNCHANGED <<pc, exc>>
       \/ /\ \E i \in chunk_tasks : tasks[i].state = "failed"
          /\ Raise("FetchError")
          /\ UNCHANGED <<all_results, chunk_idx>>
    /\ UNCHANGED <<async_scrape, max_urls, letter_idx, words, response,
                   last_page, urls, url_idx, contents, tasks, htmls, crawl_last>>

\* the chunks are used up: return all_results, bound to htmls
AsyncReturn ==
    /\ pc = "AsyncChunks"
    /\ chunk_idx > Len(chunk_list(urls, max_urls))
    /\ htmls' = all_results
    /\ pc' = "ExtractAndMerge"
    /\ UNCHANGED <<async_scrape, max_urls, exc, letter_idx, words, response,
                   last_page, urls, url_idx, contents, chunk_idx, tasks,
                   all_results, crawl_last>>

(* back in scrape *)

\* words.update(self._get_words_info(htmls)), and on to the next letter
ExtractAndMerge ==
    /\ pc = "ExtractAndMerge"
    /\ \E info \in {get_words_info(htmls)} :
           \/ /\ info.raised = ""
              /\ words' = dict_update(words, info.value)
              /\ crawl_last' = last_in_crawl_order(crawl_last, htmls, urls)
              /\ letter_idx' = letter_idx + 1
              /\ pc' = "FetchFirstPage"
              /\ exc' = exc
           \/ /\ info.raised # ""
              /\ Raise(info.raised)
              /\ UNCHANGED <<words, crawl_last, letter_idx>>
    /\ UNCHANGED <<async_scrape, max_urls, response, last_page, urls, url_idx,
                   contents, chunk_idx, tasks, all_results, htmls>>

\* the loop over self.letters is over: return words
Return ==
    /\ pc = "FetchFirstPage"
    /\ letter_idx > NumLetters
    /\ pc' = "returned"
    /\ UNCHANGED <<async_scrape, max_urls, exc, letter_idx, words, response,
                   last_page, urls, url_idx, contents, chunk_idx, tasks,
                   all_results, htmls, crawl_last>>

Next ==
    \/ FetchFirstPage
    \/ DiscoverPagination
    \/ EnumerateURLs
    \/ FetchAllPages
    \/ SeqLoopFetch
    \/ SeqLoopEnd
    \/ SeqReturnFetch
    \/ SeqReturnEnd
    \/ StartChunk
    \/ \E i \in DOMAIN tasks : TaskStart(i)
    \/ \E i \in DOMAIN tasks : TaskComplete(i)
    \/ ChunkCollect
    \/ AsyncReturn
    \/ ExtractAndMerge
    \/ Return

\* a whole crawl, over the first NumLetters letters
Spec == Init /\ [][Next]_vars

-----------------------------------------------------------------------------
(* _get_words_info on one document holding one word-group, for every       *)
(* definition text over TextAlphabet up to MaxTextLen characters and for    *)
(* three longer texts                                                       *)

TextAlphabet == {"n", ".", "v", " ", "a"}

BoundedTexts == UNION {[1..k -> TextAlphabet] : k \in 0..MaxTextLen}

\* "bahay n. syn. tahanan house; home"
Text_bahay ==
    <<"b", "a", "h", "a", "y", " ", "n", ".", " ", "s", "y", "n", ".", " ",
      "t", "a", "h", "a", "n", "a", "n", " ", "h", "o", "u", "s", "e", ";",
      " ", "h", "o", "m", "e">>

\* "masungit adj. ill-tempered; irritable"
Text_masungit ==
    <<"m", "a", "s", "u", "n", "g", "i", "t", " ", "a", "d", "j", ".", " ",
      "i", "l", "l", "-", "t", "e", "m", "p", "e", "r", "e", "d", ";", " ",
      "i", "r", "r", "i", "t", "a", "b", "l", "e">>

LongTexts == {Text_bahay, Text_masungit, Text_aba}

InitText ==
    /\ async_scrape = FALSE
    /\ max_urls = 1
    /\ pc = "ExtractAndMerge"
    /\ exc = NoException
    /\ letter_idx = 1
    /\ words = <<>>
    /\ response = NoAnchor
    /\ last_page = 2
    /\ urls = get_all_urls_by_letter(letters[1], 2)
    /\ url_idx = 2
    /\ contents = <<>>
    /\ chunk_idx = 0
    /\ tasks = <<>>
    /\ all_results = <<>>
    /\ \E text \in BoundedTexts \cup LongTexts :
           htmls = <<[url |-> urls[1], groups |-> <<[word |-> "salita", text |-> text]>>]>>
    /\ crawl_last = NoHistory

NextText == ExtractAndMerge

SpecText == InitText /\ [][NextText]_vars

-----------------------------------------------------------------------------
(* Pagination discovery and URL enumeration for every letter and every     *)
(* first page whose "Last" anchor names a page up to MaxLastK               *)

InitPaging ==
    /\ async_scrape = FALSE
    /\ max_urls = 1
    /\ pc = "DiscoverPagination"
    /\ exc = NoException
    /\ letter_idx \in DOMAIN letters
    /\ words = <<>>
    /\ response \in FirstPages(letters[letter_idx], MaxLastK)
    /\ last_page = 0
    /\ urls = <<>>
    /\ url_idx = 0
    /\ contents = <<>>
    /\ chunk_idx = 0
    /\ tasks = <<>>
    /\ all_results = <<>>
    /\ htmls = <<>>
    /\ crawl_last = NoHistory

NextPaging == DiscoverPagination \/ EnumerateURLs

SpecPaging == InitPaging /\ [][NextPaging]_vars

-----------------------------------------------------------------------------
(* _get_pages_content_async on the URLs of a letter with up to             *)
(* MaxAsyncUrls pages                                                       *)

InitAsync ==
    /\ async_scrape = TRUE
    /\ max_urls \in 1..MaxUrls
    /\ pc = "AsyncChunks"
    /\ exc = NoException
    /\ letter_idx = 1
    /\ words = <<>>
    /\ response = NoAnchor
    /\ last_page \in 1..(MaxAsyncUrls + 1)
    /\ urls = get_all_urls_by_letter(letters[1], last_page)
    /\ url_idx = 0
    /\ contents = <<>>
    /\ chunk_idx = 1
    /\ tasks = <<>>
    /\ all_results = <<>>
    /\ htmls = <<>>
    /\ crawl_last = NoHistory

NextAsync ==
    \/ StartChunk
    \/ \E i \in DOMAIN tasks : TaskStart(i)
    \/ \E i \in DOMAIN tasks : TaskComplete(i)
    \/ ChunkCollect
    \/ AsyncReturn

SpecAsync == InitAsync /\ [][NextAsync]_vars

-----------------------------------------------------------------------------
(* Properties *)

\* some string of the vocabulary occurs in text
has_part_of_speech(text) ==
    \E k \in DOMAIN parts_of_speech : find(text, parts_of_speech[k]) # -1

\* s begins with prefix
begins_with(s, prefix) ==
    Len(prefix) <= Len(s) /\ SubSeq(s, 1, Len(prefix)) = prefix

\* the word-groups merged so far have gone through extraction of their page
merged == pc \in {"FetchFirstPage", "returned"} /\ letter_idx > 1

(* C1: when the definition text of a word-group contains no string of the  *)
(* vocabulary, the entry is left out, the other entries of the page are     *)
(* still recorded, and the crawl does not abort: extraction never raises,   *)
(* and after a merge every word-group of the letter's pages that has a      *)
(* part of speech has its headword in the result.                           *)
C1_TaglessEntrySkipped ==
    /\ ~(pc = "raised" /\ exc.at = "ExtractAndMerge")
    /\ merged =>
           \A d \in Range(htmls) : \A g \in Range(d.groups) :
               has_part_of_speech(g.text) => g.word \in dict_keys(words)

(* C2: in sequential mode a failing fetch is skipped: _get_pages_content    *)
(* never raises, and the documents it returns are documents of the URLs,    *)
(* in URL order.                                                            *)
C2_SequentialFailureSkipped ==
    /\ ~(pc = "raised" /\ exc.at = "SeqReturn")
    /\ (pc = "ExtractAndMerge" /\ ~async_scrape) =>
           \E pos \in [DOMAIN htmls -> DOMAIN urls] :
               /\ \A j \in DOMAIN htmls : htmls[j].url = urls[pos[j]]
               /\ \A i, j \in DOMAIN htmls : i < j => pos[i] < pos[j]

(* C3: every entry placed in the result has a non-empty parts_of_speech    *)
(* whose last element is a vocabulary string found in the raw text at the   *)
(* greatest first-occurrence index of all found vocabulary strings; the     *)
(* definition is the trimmed text after an occurrence of that element, and  *)
(* does not begin with it.                                                  *)
C3_EntryInvariant ==
    merged =>
        \A d \in Range(htmls) : \A g \in Range(d.groups) :
            LET entry == dict_get(words, g.word)
                tags == entry.parts_of_speech
                last == tags[Len(tags)]
            IN  /\ Len(tags) > 0
                /\ last \in Range(parts_of_speech)
                /\ find(g.text, last) # -1
                /\ \A k \in DOMAIN parts_of_speech :
                       find(g.text, parts_of_speech[k]) <= find(g.text, last)
                /\ \E i \in 0..(Len(g.text) - Len(last)) :
                       /\ SubSeq(g.text, i + 1, i + Len(last)) = last
                       /\ entry.definition
                              = strip(SubSeq(g.text, i + Len(last) + 1, Len(g.text)))
                /\ ~begins_with(entry.definition, last)

\* an entry with two parts of speech and a definition has been recorded
C3_Witness ==
    /\ merged
    /\ \E i \in DOMAIN words :
           /\ Len(words[i].value.parts_of_speech) >= 2
           /\ words[i].value.definition # <<>>

\* "tahanan house; home"
Definition_bahay ==
    <<"t", "a", "h", "a", "n", "a", "n", " ", "h", "o", "u", "s", "e", ";",
      " ", "h", "o", "m", "e">>

(* C4: the text "bahay n. syn. tahanan house; home" has n. at index 6 and  *)
(* syn. at index 9, and is disambiguated to the parts of speech             *)
(* ["n.", "syn."] and the definition "tahanan house; home".                 *)
C4_BahayScenario ==
    (merged /\ htmls[1].groups[1].text = Text_bahay) =>
        /\ find(Text_bahay, <<"n", ".">>) = 6
        /\ find(Text_bahay, <<"s", "y", "n", ".">>) = 9
        /\ dict_get(words, "salita").parts_of_speech
               = << <<"n", ".">>, <<"s", "y", "n", ".">> >>
        /\ dict_get(words, "salita").definition = Definition_bahay

\* the segments of the path of a listing URL after the site's own
list_segments(u) == SubSeq(split_slash(u), Len(split_slash(url)) + 1, Len(split_slash(u)))

well_formed(resp) ==
    /\ resp.anchor
    /\ resp.has_href
    /\ LET segments == split_slash(resp.href)
           n == IF segments[Len(segments)] = <<>> THEN Len(segments) - 1
                ELSE Len(segments)
       IN  n >= 2 /\ is_int(segments[n])

trailing_integer(resp) ==
    LET segments == split_slash(resp.href)
    IN  int(IF segments[Len(segments)] = <<>> THEN segments[Len(segments) - 1]
            ELSE segments[Len(segments)])

(* C6: pagination discovery never raises; it yields k+1 when the first     *)
(* page has a "Last" anchor whose link target ends in the integer path      *)
(* segment k, and 2 when the anchor is absent or malformed.                 *)
C6_DiscoveryNeverRaises ==
    /\ ~(pc = "raised" /\ exc.at = "DiscoverPagination")
    /\ pc \in {"EnumerateURLs", "FetchAllPages"} =>
           last_page = IF well_formed(response) THEN trailing_integer(response) + 1
                       ELSE 2

\* the concatenation of a sequence of sequences
RECURSIVE concat(_)
concat(ss) == IF ss = <<>> THEN <<>> ELSE Head(ss) \o concat(Tail(ss))

started(t) == t.state # "pending"

(* C7: the chunks are consecutive, hold at most max_urls URLs each and     *)
(* concatenate to the URL list; the tasks are those of the URLs in order;   *)
(* at most max_urls fetches are in flight; no fetch of a chunk has started  *)
(* while a fetch of an earlier chunk has not ended.                         *)
C7_ChunkedFetch ==
    pc = "AsyncChunks" =>
        /\ concat(chunk_list(urls, max_urls)) = urls
        /\ \A c \in DOMAIN chunk_list(urls, max_urls) :
               Len(chunk_list(urls, max_urls)[c]) \in 1..max_urls
        /\ Len(tasks) <= Len(urls)
        /\ \A i \in DOMAIN tasks : tasks[i].url = urls[i]
        /\ Cardinality({i \in DOMAIN tasks : tasks[i].state = "inflight"}) <= max_urls
        /\ \A i, j \in DOMAIN tasks :
               (tasks[i].chunk < tasks[j].chunk /\ started(tasks[j]))
                   => tasks[i].state \in {"done", "failed"}

\* a fetch of the second chunk is in flight, after a first chunk of two
C7_Witness ==
    /\ pc = "AsyncChunks"
    /\ max_urls = 2
    /\ \E i, j, k \in DOMAIN tasks :
           /\ tasks[i].chunk = 1 /\ tasks[j].chunk = 1 /\ i # j
           /\ tasks[k].chunk = 2 /\ tasks[k].state = "inflight"

(* C8: the list _get_pages_content_async returns has, at each position j,  *)
(* the document of the j-th URL.                                            *)
C8_ResultsInInputOrder ==
    pc = "ExtractAndMerge" =>
        /\ Len(htmls) = Len(urls)
        /\ \A j \in DOMAIN htmls : htmls[j].url = urls[j]

\* the entry extraction makes of a definition text
entry_of(text) ==
    LET tags == get_parts_of_speech(text).value
    IN  [parts_of_speech |-> tags, definition |-> get_definition(text, tags[Len(tags)])]

(* C9: the result holds at most one entry per headword, and the entry of   *)
(* a headword is the one extracted from its occurrence that is last in      *)
(* crawl order: letter, then page, then position on the page.               *)
C9_LastOccurrenceWins ==
    merged =>
        /\ \A i, j \in DOMAIN words : words[i].key = words[j].key => i = j
        /\ dict_keys(words) = DOMAIN crawl_last
        /\ \A h \in DOMAIN crawl_last : dict_get(words, h) = entry_of(crawl_last[h])

\* the steps scrape takes within a letter, in order
PhaseOrder ==
    { <<"FetchFirstPage", "DiscoverPagination">>,
      <<"DiscoverPagination", "EnumerateURLs">>,
      <<"EnumerateURLs", "FetchAllPages">>,
      <<"FetchAllPages", "SeqLoop">>, <<"SeqLoop", "SeqReturn">>,
      <<"SeqReturn", "ExtractAndMerge">>,
      <<"FetchAllPages", "AsyncChunks">>, <<"AsyncChunks", "ExtractAndMerge">>,
      <<"ExtractAndMerge", "FetchFirstPage">>,
      <<"FetchFirstPage", "returned">> }

(* C10: the letters are processed in order, each once, every letter going  *)
(* through first-page fetch, discovery, enumeration, page fetches and       *)
(* merge in that order; entries are merged only when no fetch is running;   *)
(* and, no fetch failing, the crawl does not stop before it returns the     *)
(* mapping after the last letter.                                           *)
C10_OrderedCrawlReturns ==
    [][ /\ pc' # pc => (<<pc, pc'>> \in PhaseOrder \/ pc' = "raised")
        /\ letter_idx' # letter_idx =>
               (letter_idx' = letter_idx + 1 /\ pc = "ExtractAndMerge")
        /\ words' # words =>
               (pc = "ExtractAndMerge" /\ \A i \in DOMAIN tasks : tasks[i].state = "done")
        /\ pc' = "returned" => letter_idx' = NumLetters + 1
        /\ pc' = "raised" => exc'.type = "FetchError"
      ]_vars

=============================================================================
